---------------------------- MODULE Spec2Model ----------------------------
(***************************************************************************)
(* A model of cfg_exporter (src/main.py): discovery of a team's .cfg       *)
(* files, the line parser, the file-name identity resolver, the variable   *)
(* filter, the aggregator and the single-team / all-teams export drivers.  *)
(*                                                                         *)
(* Python strings are sequences of one-character strings, so that split,   *)
(* strip, replace and rstrip are computed character by character.  A dict  *)
(* is a function whose domain is its key set.                              *)
(*                                                                         *)
(* Outside the model: the optional git pull (try_pull), the loading of     *)
(* private.yaml (the settings are the constants below), the print calls    *)
(* and the text json.dump / yaml.safe_dump produce (an output file records *)
(* the format and the mapping written to it).                              *)
(***************************************************************************)
EXTENDS Integers, Sequences, FiniteSets, TLC

(***************************************************************************)
(* Bounds of the model.                                                    *)
(***************************************************************************)
\* longest file-name stem (the name without ".cfg") drawn in SpecFile
MaxStem == 5
\* longest single line drawn in SpecFile
MaxLineLen == 6
\* largest number of entries under the search directory in Spec
MaxFiles == 3

(***************************************************************************)
(* String primitives (Python str methods).                                 *)
(***************************************************************************)
\* characters str.strip() removes; the model's alphabets hold only the space
Whitespace == {" "}

Drop(s, n) == SubSeq(s, n + 1, Len(s))

Take(s, n) == SubSeq(s, 1, n)

StartsWith(s, p) == Len(p) <= Len(s) /\ Take(s, Len(p)) = p

EndsWith(s, p) == Len(p) <= Len(s) /\ Drop(s, Len(s) - Len(p)) = p

RECURSIVE LStrip(_)
LStrip(s) == IF s # <<>> /\ Head(s) \in Whitespace THEN LStrip(Tail(s)) ELSE s

RECURSIVE RStripChars(_, _)
\* str.rstrip(chars): drops trailing characters while they are members of chars
RStripChars(s, chars) ==
    IF s # <<>> /\ s[Len(s)] \in chars
    THEN RStripChars(Take(s, Len(s) - 1), chars)
    ELSE s

Strip(s) == RStripChars(LStrip(s), Whitespace)

RECURSIVE SplitAll(_, _)
\* str.split(sep) for a one-character sep: every occurrence splits, and the
\* result always holds at least one (possibly empty) part
SplitAll(s, sep) ==
    IF \A i \in 1..Len(s) : s[i] # sep
    THEN <<s>>
    ELSE LET i == CHOOSE j \in 1..Len(s) :
                      s[j] = sep /\ \A k \in 1..(j - 1) : s[k] # sep
         IN  <<Take(s, i - 1)>> \o SplitAll(Drop(s, i), sep)

RECURSIVE ReplaceAll(_, _, _)
\* str.replace(old, new): every non-overlapping occurrence, left to right
\* (the model never applies it with an empty old)
ReplaceAll(s, old, new) ==
    IF s = <<>> \/ old = <<>> THEN s
    ELSE IF StartsWith(s, old)
         THEN new \o ReplaceAll(Drop(s, Len(old)), old, new)
         ELSE <<Head(s)>> \o ReplaceAll(Tail(s), old, new)

\* str.splitlines() for "\n"-terminated lines: no empty last line
SplitLines(text) ==
    IF text = <<>> THEN <<>>
    ELSE IF text[Len(text)] = "\n"
         THEN SplitAll(Take(text, Len(text) - 1), "\n")
         ELSE SplitAll(text, "\n")

RECURSIVE Join(_, _)
\* sep.join(parts)
Join(parts, sep) ==
    IF parts = <<>> THEN <<>>
    ELSE IF Len(parts) = 1 THEN parts[1]
    ELSE parts[1] \o sep \o Join(Tail(parts), sep)

(***************************************************************************)
(* Dicts.                                                                  *)
(***************************************************************************)
EmptyDict == [k \in {} |-> <<>>]

\* d[key] = value
DictSet(d, key, value) ==
    [k \in (DOMAIN d) \cup {key} |-> IF k = key THEN value ELSE d[k]]

(***************************************************************************)
(* AppConfig: the settings loaded once from private.yaml.                  *)
(***************************************************************************)
TeamA == <<"a">>
TeamB == <<"b">>
TeamC == <<"c">>

team_names == {TeamA, TeamB, TeamC}

VarS == <<"S">>

github_var_names == {VarS}

(***************************************************************************)
(* ConfigFileUtils.dict_parse_cfg                                          *)
(***************************************************************************)
Quote == "'"

\* One iteration of the loop over cfg_lines: "skip" for the continue,
\* "raise" when one of the two tuple unpackings fails with ValueError,
\* "set" for the assignment cfg[key.strip()] = value.strip().replace("'", "")
ParseLine(line) ==
    IF Strip(line) = <<>> \/ StartsWith(line, <<"#">>)
    THEN [kind |-> "skip"]
    ELSE LET parts == SplitAll(line, " ")
         IN  IF Len(parts) # 2
             THEN [kind |-> "raise"]
             ELSE LET kv == SplitAll(parts[2], "=")
                  IN  IF Len(kv) # 2
                      THEN [kind |-> "raise"]
                      ELSE [kind |-> "set",
                            key |-> Strip(kv[1]),
                            value |-> ReplaceAll(Strip(kv[2]), <<Quote>>, <<>>)]

RECURSIVE ParseLines(_, _)
ParseLines(cfg, lines) ==
    IF lines = <<>> THEN [ok |-> TRUE, cfg |-> cfg]
    ELSE LET r == ParseLine(Head(lines))
         IN  CASE r.kind = "skip" -> ParseLines(cfg, Tail(lines))
               [] r.kind = "raise" -> [ok |-> FALSE, cfg |-> cfg]
               [] r.kind = "set" ->
                      ParseLines(DictSet(cfg, r.key, r.value), Tail(lines))

\* [ok |-> TRUE, cfg |-> the dict] or, when a line raises, ok = FALSE
dict_parse_cfg(text) == ParseLines(EmptyDict, SplitLines(text))

(***************************************************************************)
(* DeploymentFile.create                                                   *)
(***************************************************************************)
DotCfg == <<".", "c", "f", "g">>

CfgChars == {DotCfg[i] : i \in 1..Len(DotCfg)}

\* file is an entry of the file system: [dir, name, is_file, text]
create(file) ==
    IF ~file.is_file \/ ~EndsWith(file.name, DotCfg)
    THEN [exc |-> "FileNotFoundError", at |-> "create"]
    ELSE LET parsed == dict_parse_cfg(file.text)
             parts == SplitAll(file.name, "_")
         IN  IF ~parsed.ok
             THEN [exc |-> "ValueError", at |-> "dict_parse_cfg"]
             ELSE IF Len(parts) < 3
             THEN [exc |-> "ValueError", at |-> "create"]
             ELSE LET team == parts[1]
                      cluster_name == parts[2]
                      prefix == team \o <<"_">> \o cluster_name \o <<"_">>
                  IN  [exc |-> "none",
                       at |-> "create",
                       path |-> <<file.dir, file.name>>,
                       variables |-> parsed.cfg,
                       team_name |-> team,
                       cluster_name |-> cluster_name,
                       deployment_type |->
                           RStripChars(ReplaceAll(file.name, prefix, <<>>),
                                       CfgChars)]

\* a filter with the membership test inverted
exclude_github_vars_inverted(deployment) ==
    [key \in (DOMAIN deployment.variables) \cap github_var_names |->
        deployment.variables[key]]

\* DeploymentFile.exclude_github_vars: a new dict, self.variables untouched
exclude_github_vars(deployment) ==
    [key \in (DOMAIN deployment.variables) \ github_var_names |->
        deployment.variables[key]]

\* a mapper that updates the variables already stored under the deployment
\* type instead of replacing them
deployment_mapper_merge(data_dict, deployment) ==
    LET cluster == deployment.cluster_name
        inner == IF cluster \in DOMAIN data_dict
                 THEN data_dict[cluster] ELSE EmptyDict
        old == IF deployment.deployment_type \in DOMAIN inner
               THEN inner[deployment.deployment_type] ELSE EmptyDict
        new == [key \in (DOMAIN deployment.variables) \ github_var_names |->
                   deployment.variables[key]]
    IN  DictSet(data_dict, cluster,
                DictSet(inner, deployment.deployment_type,
                        [k \in (DOMAIN old) \cup (DOMAIN new) |->
                            IF k \in DOMAIN new THEN new[k] ELSE old[k]]))

\* the default mapper: data_dict.setdefault(cluster, {}) and then
\* data_dict[cluster].update({deployment_type: filtered variables})
deployment_mapper(data_dict, deployment) ==
    LET cluster == deployment.cluster_name
        inner == IF cluster \in DOMAIN data_dict
                 THEN data_dict[cluster] ELSE EmptyDict
    IN  DictSet(data_dict, cluster,
                DictSet(inner, deployment.deployment_type,
                        exclude_github_vars(deployment)))

(***************************************************************************)
(* Inputs: command-line options and the files under cfg_path.              *)
(***************************************************************************)
Json == <<"j", "s", "o", "n">>
Yaml == <<"y", "a", "m", "l">>
Xml == <<"x", "m", "l">>

\* argparse: choices=["json", "yaml"]
FormatChoices == {Json, Yaml}

\* a team name that is not configured
Ghost == <<"g">>

\* --team absent; like the empty string it is falsy in main
NoTeam == <<>>

TextF1 == <<"x", " ", "P", "=", "'", "1", "'", "\n", "x", " ", "Q", "=", "2", "\n", "x", " ", "S", "=", "9", "\n">>
TextF2 == <<"#", "c", "\n", "\n", "x", " ", "P", "=", "3", "\n">>
TextF3 == <<"x", " ", "P", "=", "5", "\n", "x", " ", "S", "=", "9">>
TextOk == <<"x", " ", "P", "=", "7", "\n">>
TextMalformed == <<"x", " ", "P", "=", "1", "\n", "x", "Q", "=", "2", "\n">>

NameACW == <<"a", "_", "c", "_", "w", ".", "c", "f", "g">>
NameACD == <<"a", "_", "c", "_", "d", ".", "c", "f", "g">>
NameAX == <<"a", "_", "x", ".", "c", "f", "g">>
NameACM == <<"a", "_", "c", "_", "m", ".", "c", "f", "g">>
NameBCW == <<"b", "_", "c", "_", "w", ".", "c", "f", "g">>
NameBX == <<"b", "_", "x", ".", "c", "f", "g">>
NameADir == <<"a", "_", "d", ".", "c", "f", "g">>

\* what may lie under cfg_path: two files of team a with the same name in
\* different directories, a third deployment type of the same cluster, a
\* name of two segments, a file with a malformed line, files of team b and
\* a directory whose name matches the pattern
FileUniverse ==
    { [dir |-> "d1", name |-> NameACW, is_file |-> TRUE, text |-> TextF1],
      [dir |-> "d2", name |-> NameACW, is_file |-> TRUE, text |-> TextF2],
      [dir |-> "d1", name |-> NameACD, is_file |-> TRUE, text |-> TextF3],
      [dir |-> "d1", name |-> NameAX, is_file |-> TRUE, text |-> TextOk],
      [dir |-> "d1", name |-> NameACM, is_file |-> TRUE, text |-> TextMalformed],
      [dir |-> "d1", name |-> NameBCW, is_file |-> TRUE, text |-> TextOk],
      [dir |-> "d1", name |-> NameBX, is_file |-> TRUE, text |-> TextOk],
      [dir |-> "d1", name |-> NameADir, is_file |-> FALSE, text |-> <<>>] }

\* alphabets of the names and lines drawn in SpecFile
NameChars == {"a", "_", ".", "c", "f", "g"}
LineChars == {"x", " ", "=", "'", "#"}

SeqsUpTo(S, n) == UNION {[1..m -> S] : m \in 0..n}

Stems == SeqsUpTo(NameChars, MaxStem)

Lines == SeqsUpTo(LineChars, MaxLineLen)

LineOk == <<"x", " ", "x", "=", "x">>

VARIABLES
    entry,        \* the function the run starts in
    opts,         \* argparse.Namespace: team, all, format
    fs,           \* the entries under cfg_path
    pc,           \* position of the run
    error,        \* the exception that ended the run
    exporter,     \* the current CFGExporter: team_name, dest_dir, data
    pending,      \* entries the rglob of iter_team_cfgs has yet to yield
    cfg_file,     \* the entry last passed to DeploymentFile.create
    deployment,   \* what that call returned or raised
    processed,    \* the records the current exporter has mapped, in order
    started,      \* teams whose file discovery began, in order
    teams_left,   \* teams get_team_names() has yet to yield in --all mode
    phase,        \* "team" inside export_team, "all" inside the --all loop
    dirs,         \* destination directories created
    out_files,    \* destination path -> [open, format, data, complete]
    opened        \* the destination paths opened for writing, in order

vars == <<entry, opts, fs, pc, error, exporter, pending, cfg_file, deployment,
          processed, started, teams_left, phase, dirs, out_files, opened>>

NoError == [exc |-> "none", at |-> "none", msg |-> <<>>]

NoFile == [dir |-> "", name |-> <<>>, is_file |-> FALSE, text |-> <<>>]

NoDeployment == [exc |-> "pending", at |-> "none"]

\* CFGExporter.__init__
NewExporter(team, dest_dir) ==
    [team_name |-> team, dest_dir |-> dest_dir, data |-> EmptyDict]

NoExporter == NewExporter(<<>>, <<>>)

(***************************************************************************)
(* unknown_team_name and get_team_names                                    *)
(***************************************************************************)
MsgUnknown == <<"U", "n", "k", "n", "o", "w", "n", " ", "t", "e", "a", "m", " ", "n", "a", "m", "e", ":", " ">>
MsgValid == <<".", " ", "V", "a", "l", "i", "d", " ", "t", "e", "a", "m", "s", " ", "a", "r", "e", ":", " ">>
CommaSpace == <<",", " ">>

\* the orders in which iterating the set team_names may yield its members
TeamOrders ==
    {o \in [1..Cardinality(team_names) -> team_names] :
        \A i, j \in DOMAIN o : i # j => o[i] # o[j]}

\* a message that names only the first valid team
unknown_team_name_first(team, order) ==
    [exc |-> "ValueError",
     at |-> "unknown_team_name",
     msg |-> MsgUnknown \o team \o MsgValid \o order[1]]

\* ValueError(f"Unknown team name: {team}. Valid teams are: {', '.join(...)}")
unknown_team_name(team, order) ==
    [exc |-> "ValueError",
     at |-> "unknown_team_name",
     msg |-> MsgUnknown \o team \o MsgValid \o Join(order, CommaSpace)]

Raised(exc, at) == [exc |-> exc, at |-> at, msg |-> <<>>]

(***************************************************************************)
(* ConfigFileUtils.iter_team_cfgs                                          *)
(***************************************************************************)
\* fnmatch of a name against f"{team_name}_*.cfg"
GlobMatch(name, team) ==
    /\ StartsWith(name, team \o <<"_">>)
    /\ EndsWith(name, DotCfg)
    /\ Len(name) >= Len(team) + 1 + Len(DotCfg)

\* the generator's first step: the membership test, then the rglob
IterTeamCfgs ==
    /\ pc = "build_start"
    /\ \/ /\ exporter.team_name \notin team_names
          /\ \E order \in TeamOrders :
                 error' = unknown_team_name(exporter.team_name, order)
          /\ pc' = "failed"
          /\ UNCHANGED <<pending, started>>
       \/ /\ exporter.team_name \in team_names
          /\ pending' = {f \in fs : GlobMatch(f.name, exporter.team_name)}
          /\ started' = Append(started, exporter.team_name)
          /\ pc' = "build_loop"
          /\ UNCHANGED error
    /\ UNCHANGED <<entry, opts, fs, exporter, cfg_file, deployment, processed,
                   teams_left, phase, dirs, out_files, opened>>

\* "if not file.is_file(): continue"
IterSkipNonFile ==
    /\ pc = "build_loop"
    /\ \E f \in pending :
           /\ ~f.is_file
           /\ pending' = pending \ {f}
    /\ UNCHANGED <<entry, opts, fs, pc, error, exporter, cfg_file, deployment,
                   processed, started, teams_left, phase,
                   dirs, out_files, opened>>

(***************************************************************************)
(* CFGExporter.build_contents                                              *)
(***************************************************************************)
\* a loop that skips a file whose creation raises
BuildNextSwallow ==
    /\ pc = "build_loop"
    /\ \E f \in pending :
           /\ f.is_file
           /\ pending' = pending \ {f}
           /\ cfg_file' = f
           /\ LET deployment_obj == create(f)
              IN  /\ deployment' = deployment_obj
                  /\ \/ /\ deployment_obj.exc # "none"
                        /\ UNCHANGED <<exporter, processed>>
                     \/ /\ deployment_obj.exc = "none"
                        /\ exporter' =
                               [exporter EXCEPT
                                   !.data = deployment_mapper(exporter.data,
                                                              deployment_obj)]
                        /\ processed' = Append(processed, deployment_obj)
    /\ UNCHANGED <<entry, opts, fs, pc, error, started, teams_left, phase,
                   dirs, out_files, opened>>

\* one iteration of the loop: the next path in whatever order rglob yields,
\* DeploymentFile.create and, unless it raised, the mapper
BuildNext ==
    /\ pc = "build_loop"
    /\ \E f \in pending :
           /\ f.is_file
           /\ pending' = pending \ {f}
           /\ cfg_file' = f
           /\ LET deployment_obj == create(f)
              IN  /\ deployment' = deployment_obj
                  /\ \/ /\ deployment_obj.exc # "none"
                        /\ error' = Raised(deployment_obj.exc, deployment_obj.at)
                        /\ pc' = "failed"
                        /\ UNCHANGED <<exporter, processed>>
                     \/ /\ deployment_obj.exc = "none"
                        /\ exporter' =
                               [exporter EXCEPT
                                   !.data = deployment_mapper(exporter.data,
                                                              deployment_obj)]
                        /\ processed' = Append(processed, deployment_obj)
                        /\ UNCHANGED <<error, pc>>
    /\ UNCHANGED <<entry, opts, fs, started, teams_left, phase, dirs, out_files,
                   opened>>

\* the loop is exhausted and build_contents returns to its caller
BuildReturn ==
    /\ pc = "build_loop"
    /\ pending = {}
    /\ pc' = IF entry = "build_contents" THEN "done" ELSE "export"
    /\ UNCHANGED <<entry, opts, fs, error, exporter, pending, cfg_file,
                   deployment, processed, started, teams_left, phase, dirs,
                   out_files, opened>>

(***************************************************************************)
(* CFGExporter.export                                                      *)
(***************************************************************************)
\* Path(self.dest_dir, f"{self.team_name}.{self.dest_dir}")
DestPath(exp) ==
    exp.dest_dir \o <<"/">> \o exp.team_name \o <<".">> \o exp.dest_dir

Truncated == [open |-> TRUE, format |-> <<>>, data |-> EmptyDict, complete |-> FALSE]

\* up to the yield: mkdir when asked to, then open(dest, "w"), which creates
\* or truncates the file.  Both callers pass mkdirs=True.
Export(mkdirs) ==
    /\ pc = "export"
    /\ dirs' = IF mkdirs THEN dirs \cup {exporter.dest_dir} ELSE dirs
    /\ IF exporter.dest_dir \in dirs'
       THEN /\ out_files' = DictSet(out_files, DestPath(exporter), Truncated)
            /\ opened' = Append(opened, DestPath(exporter))
            /\ pc' = "handler"
            /\ UNCHANGED error
       ELSE /\ error' = Raised("FileNotFoundError", "export")
            /\ pc' = "failed"
            /\ UNCHANGED <<out_files, opened>>
    /\ UNCHANGED <<entry, opts, fs, exporter, pending, cfg_file,
                   deployment, processed, started, teams_left, phase>>

\* leaving "with dest.open(...)": the file is closed
Closed(files, path) == [files EXCEPT ![path].open = FALSE]

(***************************************************************************)
(* get_export_handler, called with the open file inside the with block of  *)
(* export_team or inside the body of main's loop over the generator        *)
(***************************************************************************)
Written(format, data) ==
    [open |-> TRUE, format |-> format, data |-> data, complete |-> TRUE]

Partial(format) ==
    [open |-> TRUE, format |-> format, data |-> EmptyDict, complete |-> FALSE]

\* where the run goes when the handler returns
AfterHandler ==
    IF phase = "all" THEN "all_resume"
    ELSE IF entry = "main" THEN "main_all" ELSE "done"

\* a loop in main that goes on to the next team when the handler raises
AfterHandlerRaiseContinue == IF phase = "all" THEN "all_resume" ELSE "failed"

\* where the run goes when the handler raises: export_team's with block
\* unwinds at once; main's loop leaves the generator suspended at its yield
AfterHandlerRaise == IF phase = "all" THEN "main_raise" ELSE "failed"

\* the file as the with block of export_team leaves it; in --all mode the
\* with block belongs to the generator and stays open until it is resumed
LeaveWith(files, path) == IF phase = "all" THEN files ELSE Closed(files, path)

GetExportHandler ==
    /\ pc = "handler"
    /\ LET path == DestPath(exporter)
           format == opts.format
       IN  \/ /\ format \in {Json, Yaml}
              \* json.dump / yaml.safe_dump wrote the document
              /\ out_files' = LeaveWith(
                     [out_files EXCEPT ![path] = Written(format, exporter.data)],
                     path)
              /\ pc' = AfterHandler
              /\ UNCHANGED error
           \/ /\ format \in {Json, Yaml}
              \* the dump failed on the file (OSError)
              /\ out_files' = LeaveWith(
                     [out_files EXCEPT ![path] = Partial(format)], path)
              /\ error' = Raised("OSError", "get_export_handler")
              /\ pc' = AfterHandlerRaise
           \/ /\ format \notin {Json, Yaml}
              /\ out_files' = LeaveWith(out_files, path)
              /\ error' = Raised("ValueError", "get_export_handler")
              /\ pc' = AfterHandlerRaise
    /\ UNCHANGED <<entry, opts, fs, exporter, pending, cfg_file, deployment,
                   processed, started, teams_left, phase, dirs, opened>>

(***************************************************************************)
(* export_team                                                             *)
(***************************************************************************)
ExportTeam ==
    /\ pc = "export_team"
    /\ \/ /\ opts.team \notin team_names
          /\ \E order \in TeamOrders :
                 error' = unknown_team_name(opts.team, order)
          /\ pc' = "failed"
          /\ UNCHANGED <<exporter, phase>>
       \/ /\ opts.team \in team_names
          /\ exporter' = NewExporter(opts.team, opts.format)
          /\ phase' = "team"
          /\ pc' = "build_start"
          /\ UNCHANGED error
    /\ UNCHANGED <<entry, opts, fs, pending, cfg_file, deployment, processed,
                   started, teams_left, dirs, out_files, opened>>

(***************************************************************************)
(* CFGExporter.export_all_generator, driven by the for loop of main        *)
(***************************************************************************)
\* the loop asks for the next team: a fresh exporter, or StopIteration
AllNext ==
    /\ pc = "all_next"
    /\ \/ /\ teams_left = {}
          /\ pc' = "done"
          /\ UNCHANGED <<exporter, teams_left, processed>>
       \/ \E team_name \in teams_left :
              /\ exporter' = NewExporter(team_name, opts.format)
              /\ teams_left' = teams_left \ {team_name}
              /\ processed' = <<>>
              /\ pc' = "build_start"
    /\ UNCHANGED <<entry, opts, fs, error, pending, cfg_file, deployment,
                   started, phase, dirs, out_files, opened>>

\* main's loop body returned: the generator is resumed after its yield and
\* leaves the with block
AllResume ==
    /\ pc = "all_resume"
    /\ out_files' = Closed(out_files, DestPath(exporter))
    /\ pc' = "all_next"
    /\ UNCHANGED <<entry, opts, fs, error, exporter, pending, cfg_file,
                   deployment, processed, started, teams_left, phase, dirs,
                   opened>>

\* main's loop body raised.  Nothing closes the suspended generator: its
\* with block is left only if the interpreter finalizes the generator
\* (CPython does so when the last reference goes) ...
GeneratorFinalized ==
    /\ pc = "main_raise"
    /\ out_files' = Closed(out_files, DestPath(exporter))
    /\ pc' = "failed"
    /\ UNCHANGED <<entry, opts, fs, error, exporter, pending, cfg_file,
                   deployment, processed, started, teams_left, phase, dirs,
                   opened>>

\* ... and an interpreter that collects later, or not before it exits, ends
\* the run with the with block never left
GeneratorAbandoned ==
    /\ pc = "main_raise"
    /\ pc' = "failed"
    /\ UNCHANGED <<entry, opts, fs, error, exporter, pending, cfg_file,
                   deployment, processed, started, teams_left, phase, dirs,
                   out_files, opened>>

(***************************************************************************)
(* main and the other entry points                                         *)
(***************************************************************************)
\* resolve_cli_opts: argparse exits when --format is not one of the choices
ResolveCliOpts ==
    /\ entry = "main"
    /\ pc = "start"
    /\ \/ /\ opts.format \notin FormatChoices
          /\ error' = Raised("SystemExit", "resolve_cli_opts")
          /\ pc' = "failed"
       \/ /\ opts.format \in FormatChoices
          /\ pc' = "main_team"
          /\ UNCHANGED error
    /\ UNCHANGED <<entry, opts, fs, exporter, pending, cfg_file, deployment,
                   processed, started, teams_left, phase,
                   dirs, out_files, opened>>

\* "if cli_options.team: export_team(cli_options)"
MainTeam ==
    /\ pc = "main_team"
    /\ pc' = IF opts.team # NoTeam THEN "export_team" ELSE "main_all"
    /\ UNCHANGED <<entry, opts, fs, error, exporter, pending, cfg_file,
                   deployment, processed, started, teams_left, phase, dirs,
                   out_files, opened>>

\* "if cli_options.all: for file, data in export_all_generator(...)"
MainAll ==
    /\ pc = "main_all"
    /\ IF opts.all
       THEN /\ teams_left' = team_names
            /\ phase' = "all"
            /\ pc' = "all_next"
       ELSE /\ pc' = "done"
            /\ UNCHANGED <<teams_left, phase>>
    /\ UNCHANGED <<entry, opts, fs, error, exporter, pending, cfg_file,
                   deployment, processed, started, dirs, out_files, opened>>

\* export_team(opts) called by other code with a Namespace of its own
CallExportTeam ==
    /\ entry = "export_team"
    /\ pc = "start"
    /\ pc' = "export_team"
    /\ UNCHANGED <<entry, opts, fs, error, exporter, pending, cfg_file,
                   deployment, processed, started, teams_left, phase, dirs,
                   out_files, opened>>

\* CFGExporter(team, dest_dir=format).build_contents() called by other code
CallBuildContents ==
    /\ entry = "build_contents"
    /\ pc = "start"
    /\ exporter' = NewExporter(opts.team, opts.format)
    /\ pc' = "build_start"
    /\ UNCHANGED <<entry, opts, fs, error, pending, cfg_file, deployment,
                   processed, started, teams_left, phase,
                   dirs, out_files, opened>>

(***************************************************************************)
(* The export runs.                                                        *)
(***************************************************************************)
Init ==
    /\ entry \in {"main", "export_team", "build_contents"}
    /\ opts \in [team : {NoTeam, TeamA, TeamB, Ghost},
                 all : BOOLEAN,
                 format : {Json, Yaml, Xml}]
    /\ entry # "main" => ~opts.all
    /\ entry = "build_contents" => opts.format = Json
    /\ fs \in {s \in SUBSET FileUniverse : Cardinality(s) <= MaxFiles}
    /\ pc = "start"
    /\ error = NoError
    /\ exporter = NoExporter
    /\ pending = {}
    /\ cfg_file = NoFile
    /\ deployment = NoDeployment
    /\ processed = <<>>
    /\ started = <<>>
    /\ teams_left = {}
    /\ phase = "none"
    /\ dirs = {}
    /\ out_files = EmptyDict
    /\ opened = <<>>

Next ==
    \/ ResolveCliOpts
    \/ MainTeam
    \/ MainAll
    \/ CallExportTeam
    \/ CallBuildContents
    \/ ExportTeam
    \/ IterTeamCfgs
    \/ IterSkipNonFile
    \/ BuildNext
    \/ BuildReturn
    \/ Export(TRUE)
    \/ GetExportHandler
    \/ AllNext
    \/ AllResume
    \/ GeneratorFinalized
    \/ GeneratorAbandoned

Spec == Init /\ [][Next]_vars

(***************************************************************************)
(* DeploymentFile.create on its own, over every short name and every short *)
(* line.                                                                   *)
(***************************************************************************)
FileTexts ==
    Lines \cup {LineOk \o <<"\n">> \o l \o <<"\n">> : l \in Lines}

InitFile ==
    /\ \/ /\ cfg_file \in [dir : {"d1"},
                           name : Stems \cup {s \o DotCfg : s \in Stems},
                           is_file : {TRUE},
                           text : {TextOk}]
       \/ /\ cfg_file \in [dir : {"d1"},
                           name : {NameACW},
                           is_file : BOOLEAN,
                           text : FileTexts]
    /\ fs = {cfg_file}
    /\ entry = "create"
    /\ opts = [team |-> NoTeam, all |-> FALSE, format |-> Json]
    /\ pc = "start"
    /\ error = NoError
    /\ exporter = NoExporter
    /\ pending = {}
    /\ deployment = NoDeployment
    /\ processed = <<>>
    /\ started = <<>>
    /\ teams_left = {}
    /\ phase = "none"
    /\ dirs = {}
    /\ out_files = EmptyDict
    /\ opened = <<>>

\* DeploymentFile.create(cfg_path) returned a record
CreateReturns ==
    /\ entry = "create"
    /\ pc = "start"
    /\ create(cfg_file).exc = "none"
    /\ deployment' = create(cfg_file)
    /\ pc' = "done"
    /\ UNCHANGED <<entry, opts, fs, error, exporter, pending, cfg_file,
                   processed, started, teams_left, phase,
                   dirs, out_files, opened>>

\* DeploymentFile.create(cfg_path) raised
CreateRaises ==
    /\ entry = "create"
    /\ pc = "start"
    /\ create(cfg_file).exc # "none"
    /\ deployment' = create(cfg_file)
    /\ error' = Raised(create(cfg_file).exc, create(cfg_file).at)
    /\ pc' = "failed"
    /\ UNCHANGED <<entry, opts, fs, exporter, pending, cfg_file, processed,
                   started, teams_left, phase, dirs, out_files, opened>>

NextFile == CreateReturns \/ CreateRaises

SpecFile == InitFile /\ [][NextFile]_vars

(***************************************************************************)
(* Properties.  Their vocabulary is defined here from the wording of the   *)
(* specification, apart from the operators that model the code.            *)
(***************************************************************************)
Count(s, ch) == Cardinality({i \in 1..Len(s) : s[i] = ch})

Elems(s) == {s[i] : i \in 1..Len(s)}

\* position of the first ch in s (s holds one)
FirstIdx(s, ch) ==
    CHOOSE i \in 1..Len(s) : s[i] = ch /\ \A k \in 1..(i - 1) : s[k] # ch

\* sub occurs in s as a contiguous run
Occurs(sub, s) ==
    \E i \in 0..(Len(s) - Len(sub)) : SubSeq(s, i + 1, i + Len(sub)) = sub

IsBlank(line) == \A i \in 1..Len(line) : line[i] \in Whitespace

\* the first non-whitespace character of the line is '#'
IsComment(line) ==
    \E i \in 1..Len(line) :
        /\ line[i] = "#"
        /\ \A k \in 1..(i - 1) : line[k] \in Whitespace

Skippable(line) == IsBlank(line) \/ IsComment(line)

NotSkippable(line) == ~Skippable(line)

NotQuote(ch) == ch # Quote

\* "<token> <key>=<value>": one space between a token and an assignment
\* that holds exactly one '=' and a key
TokenOf(line) == Take(line, FirstIdx(line, " ") - 1)

AssignmentOf(line) == Drop(line, FirstIdx(line, " "))

KeyOf(line) ==
    LET asg == AssignmentOf(line)
    IN  Strip(Take(asg, FirstIdx(asg, "=") - 1))

ValueOf(line) ==
    LET asg == AssignmentOf(line)
    IN  SelectSeq(Strip(Drop(asg, FirstIdx(asg, "="))), NotQuote)

AssignmentShape(line) ==
    /\ Count(line, " ") >= 1
    /\ TokenOf(line) # <<>>
    /\ Head(line) # "#"
    /\ AssignmentOf(line) # <<>>
    /\ Head(AssignmentOf(line)) # " "
    /\ Count(AssignmentOf(line), "=") = 1
    /\ KeyOf(line) # <<>>

\* a line the specification calls malformed: neither blank nor a comment,
\* and not two space-delimited parts of which the second holds one '='
Malformed(line) ==
    /\ ~Skippable(line)
    /\ \/ Count(line, " ") # 1
       \/ Count(AssignmentOf(line), "=") # 1

\* fewer than 3 underscore-delimited segments
InvalidName(name) == Count(name, "_") < 2

\* a plain file discovered for the team that must make the export fail
BadFileOf(team) ==
    {f \in fs :
        /\ f.is_file
        /\ GlobMatch(f.name, team)
        /\ \/ InvalidName(f.name)
           \/ \E i \in 1..Len(SplitLines(f.text)) :
                  Malformed(SplitLines(f.text)[i])}

\* the variables of a record without the globally-shared names
Filtered(variables) ==
    [k \in {x \in DOMAIN variables : x \notin github_var_names} |->
        variables[k]]

OutputOf(team) == opts.format \o <<"/">> \o team \o <<".">> \o opts.format

OpenFiles == {p \in DOMAIN out_files : out_files[p].open}

(***************************************************************************)
(* Claims about DeploymentFile.create and the line parser (SpecFile).      *)
(***************************************************************************)
\* C1: for every name "<a>_<b>_<c>.cfg" with a and b non-empty and free of
\* underscores and c non-empty, create yields team_name = a,
\* cluster_name = b and deployment_type = c exactly.
C1_CreateYieldsExactIdentity ==
    LET name == cfg_file.name
    IN  \A i, j \in 1..Len(name) :
            ( /\ entry = "create"
              /\ pc # "start"
              /\ deployment.at # "dict_parse_cfg"
              /\ cfg_file.is_file
              /\ EndsWith(name, DotCfg)
              /\ 1 < i /\ i + 1 < j /\ j < Len(name) - Len(DotCfg)
              /\ name[i] = "_" /\ name[j] = "_"
              /\ \A k \in 1..(j - 1) : k # i => name[k] # "_" )
            => /\ deployment.exc = "none"
               /\ deployment.team_name = Take(name, i - 1)
               /\ deployment.cluster_name = SubSeq(name, i + 1, j - 1)
               /\ deployment.deployment_type =
                      SubSeq(name, j + 1, Len(name) - Len(DotCfg))

\* C8: blank lines and lines whose first non-whitespace character is '#',
\* indented ones included, add no key and raise no error: the file parses
\* as it does with those lines left out.
C8_SkipsBlankAndCommentLines ==
    ( /\ entry = "create"
      /\ pc # "start"
      /\ cfg_file.is_file
      /\ EndsWith(cfg_file.name, DotCfg)
      /\ ~InvalidName(cfg_file.name) )
    => LET kept == SelectSeq(SplitLines(cfg_file.text), NotSkippable)
           expected == ParseLines(EmptyDict, kept)
       IN  /\ expected.ok <=> deployment.exc = "none"
           /\ expected.ok => deployment.variables = expected.cfg

\* C9: every line "<token> <key>=<value>" with one space between token and
\* assignment maps the trimmed key to the trimmed value without its single
\* quotes, also with spaces inside the value or around '=', and a later
\* occurrence of a key overwrites the earlier one.
C9_ParsesTokenAssignmentLines ==
    LET lines == SplitLines(cfg_file.text)
    IN  ( /\ entry = "create"
          /\ pc # "start"
          /\ cfg_file.is_file
          /\ EndsWith(cfg_file.name, DotCfg)
          /\ ~InvalidName(cfg_file.name)
          /\ \A i \in 1..Len(lines) : AssignmentShape(lines[i]) )
        => /\ deployment.exc = "none"
           /\ DOMAIN deployment.variables =
                  {KeyOf(lines[i]) : i \in 1..Len(lines)}
           /\ \A i \in 1..Len(lines) :
                  (\A j \in (i + 1)..Len(lines) :
                       KeyOf(lines[j]) # KeyOf(lines[i]))
                  => deployment.variables[KeyOf(lines[i])] = ValueOf(lines[i])

(***************************************************************************)
(* Claims about the export runs (Spec).                                    *)
(***************************************************************************)
\* index of the last record mapped so far with the cluster and type of d
LastWithPair(d) ==
    CHOOSE i \in 1..Len(processed) :
        /\ processed[i].cluster_name = d.cluster_name
        /\ processed[i].deployment_type = d.deployment_type
        /\ \A j \in (i + 1)..Len(processed) :
               \/ processed[j].cluster_name # d.cluster_name
               \/ processed[j].deployment_type # d.deployment_type

\* C2: with the default mapper, for every (cluster, deployment_type) pair
\* that occurred the result holds exactly the filtered variables of the
\* last record processed with that pair, never a merge with an earlier
\* record, and nothing else.
C2_LastRecordOverwrites ==
    entry # "create" =>
        /\ DOMAIN exporter.data = {processed[i].cluster_name :
                                       i \in 1..Len(processed)}
        /\ \A i \in 1..Len(processed) :
               LET d == processed[i]
               IN  /\ DOMAIN exporter.data[d.cluster_name] =
                          {processed[j].deployment_type :
                               j \in {k \in 1..Len(processed) :
                                        processed[k].cluster_name =
                                            d.cluster_name}}
                   /\ exporter.data[d.cluster_name][d.deployment_type] =
                          Filtered(processed[LastWithPair(d)].variables)

\* C2's case: a record overwrote an earlier one of the same pair whose
\* variables differ, a record of another type of that cluster in between
C2_Witness ==
    /\ pc = "done"
    /\ Len(processed) = 3
    /\ processed[1].cluster_name = processed[3].cluster_name
    /\ processed[1].deployment_type = processed[3].deployment_type
    /\ DOMAIN Filtered(processed[1].variables) #
           DOMAIN Filtered(processed[3].variables)
    /\ processed[2].cluster_name = processed[1].cluster_name
    /\ processed[2].deployment_type # processed[1].deployment_type

\* the team-scoped export path was entered with opts.team
TeamRequested ==
    \/ entry = "export_team"
    \/ entry = "main" /\ opts.team # NoTeam /\ opts.format \in FormatChoices

BeforeTeamCheck == pc \in {"start", "main_team", "export_team"}

\* C3: an unknown team requested through export_team fails with the
\* unknown-team error, whose message lists every configured team name,
\* before any file is discovered, any directory created, any output opened.
C3_UnknownTeamFailsFirst ==
    (TeamRequested /\ opts.team \notin team_names) =>
        /\ started = <<>>
        /\ dirs = {}
        /\ opened = <<>>
        /\ DOMAIN out_files = {}
        /\ ~BeforeTeamCheck =>
               /\ pc = "failed"
               /\ error.exc = "ValueError"
               /\ error.at = "unknown_team_name"
               /\ StartsWith(error.msg, MsgUnknown \o opts.team \o MsgValid)
               /\ \A t \in team_names :
                      Occurs(t, Drop(error.msg,
                                     Len(MsgUnknown \o opts.team \o MsgValid)))

C3_Witness ==
    /\ TeamRequested
    /\ opts.team = Ghost
    /\ pc = "failed"
    /\ error.at = "unknown_team_name"
    /\ \E f \in fs : f.is_file

\* C4: in single-team export a discovered file with a malformed line or a
\* name of fewer than 3 segments makes the export fail without a partial
\* result: the team's output file is never opened.
C4_NoPartialResult ==
    ( /\ TeamRequested
      /\ opts.team \in team_names
      /\ BadFileOf(opts.team) # {} )
    => /\ pc # "done"
       /\ phase # "all"
       /\ OutputOf(opts.team) \notin Elems(opened)
       /\ OutputOf(opts.team) \notin DOMAIN out_files
       /\ pc = "failed" => error.exc = "ValueError"

\* C4's case: the export failed on the bad file after valid ones were mapped
C4_Witness ==
    /\ TeamRequested
    /\ opts.team \in team_names
    /\ cfg_file \in BadFileOf(opts.team)
    /\ pc = "failed"
    /\ Len(processed) >= 1

\* every entry of data comes from a file of the team
FromTeam(data, team) ==
    \A c \in DOMAIN data : \A ty \in DOMAIN data[c] :
        \E f \in fs :
            /\ f.is_file
            /\ GlobMatch(f.name, team)
            /\ create(f).exc = "none"
            /\ create(f).cluster_name = c
            /\ create(f).deployment_type = ty
            /\ data[c][ty] = Filtered(create(f).variables)

\* discoveries and opens of the --all loop (export_team, when main ran it
\* first, made one of each)
SingleRuns == IF opts.team # NoTeam THEN 1 ELSE 0

AllStarted == Drop(started, SingleRuns)

AllOpened == Drop(opened, SingleRuns)

TeamsTaken == team_names \ teams_left

TeamsDone ==
    IF pc \in {"all_next", "done"}
    THEN TeamsTaken
    ELSE TeamsTaken \ {exporter.team_name}

NoDuplicates(s) == Cardinality(Elems(s)) = Len(s)

\* C5: in --all mode teams are exported one at a time, each with a freshly
\* built mapping and its own output file named after the team; when a team
\* fails the run stops: no later team is discovered or opened, and the
\* output files of the teams completed before stay written.
C5_AllTeamsStopAtFirstFailure ==
    phase = "all" =>
        /\ error # NoError => pc \in {"main_raise", "failed"}
        /\ Elems(AllStarted) \subseteq TeamsTaken
        /\ NoDuplicates(AllStarted)
        /\ Elems(AllOpened) \subseteq {OutputOf(t) : t \in TeamsTaken}
        /\ NoDuplicates(AllOpened)
        /\ \A t \in TeamsDone :
               /\ OutputOf(t) \in DOMAIN out_files
               /\ ~out_files[OutputOf(t)].open
               /\ out_files[OutputOf(t)].complete
               /\ out_files[OutputOf(t)].format = opts.format
               /\ FromTeam(out_files[OutputOf(t)].data, t)
        /\ FromTeam(exporter.data, exporter.team_name)
        /\ pc = "build_start" => exporter.data = EmptyDict
        /\ OpenFiles \subseteq {OutputOf(exporter.team_name)}
        /\ pc = "all_resume" =>
               out_files[OutputOf(exporter.team_name)] =
                   Written(opts.format, exporter.data)

\* C5's case: a team failed after another completed with a non-empty
\* mapping, and a third was still to come
C5_Witness ==
    /\ phase = "all"
    /\ pc = "failed"
    /\ teams_left # {}
    /\ \E t \in TeamsDone : DOMAIN out_files[OutputOf(t)].data # {}

C7_UnsupportedFormatBeforeOpen ==
    (error.exc = "ValueError" /\ error.at = "get_export_handler") =>
        /\ OutputOf(exporter.team_name) \notin Elems(opened)
        /\ OutputOf(exporter.team_name) \notin DOMAIN out_files

\* the record last created is the one the current exporter mapped last
JustMapped ==
    /\ entry # "create"
    /\ Len(processed) >= 1
    /\ deployment = processed[Len(processed)]

\* C10: exclude_github_vars returns exactly the record's entries whose key
\* is not globally shared, leaves the record's variables as parsed, and
\* filtering its result again returns an equal mapping.
C10_FilterExcludesSharedVars ==
    JustMapped =>
        LET result ==
                exporter.data[deployment.cluster_name][deployment.deployment_type]
        IN  /\ DOMAIN result =
                   {k \in DOMAIN deployment.variables : k \notin github_var_names}
            /\ \A k \in DOMAIN result : result[k] = deployment.variables[k]
            /\ deployment.variables = dict_parse_cfg(cfg_file.text).cfg
            /\ exclude_github_vars([variables |-> result]) = result

\* C10's case: the record held a shared variable and others
C10_Witness ==
    /\ JustMapped
    /\ DOMAIN deployment.variables \cap github_var_names # {}
    /\ DOMAIN deployment.variables \ github_var_names # {}

=============================================================================
